---- MODULE Spec2Model ----
(***************************************************************************)
(* Ledger engine of PaymentEngine (src/src/engine.rs, src/src/types.rs).   *)
(*                                                                         *)
(* The engine owns two maps, accounts (ClientId -> Account) and deposits   *)
(* (TxId -> DepositRecord), and applies transaction records one at a time  *)
(* through Engine::process.  Decimal amounts are modelled as exact         *)
(* integers (a fixed number of minor units); Option<Decimal> is modelled   *)
(* as a sequence of length 0 (None) or 1 (Some(a)).                        *)
(*                                                                         *)
(* The input stream is a file of at most MaxRecords rows; its amounts are  *)
(* the unit 1 and MaxAmount (Spec).  The engine accepts zero and negative  *)
(* amounts as well: SpecSigned has the shorter streams, of at most         *)
(* MaxSignedRecords rows, that also carry the amounts 0 and -1.            *)
(***************************************************************************)
EXTENDS Integers, FiniteSets, Sequences, TLC

\* ---------------------------------------------------------------- bounds
MaxClient == 2
MaxTx == 2
MaxAmount == 2
MaxRecords == 5
MaxSignedRecords == 4

ClientId == 1..MaxClient
TxId == 1..MaxTx
Decimal == {1, MaxAmount}

\* ----------------------------------------------------------------- types
TxType == {"Deposit", "Withdrawal", "Dispute", "Resolve", "Chargeback"}

DepositStatus == {"Normal", "Disputed", "ChargedBack"}

None == << >>
Some(a) == << a >>
OptionDecimal == {None} \cup {Some(a) : a \in Decimal}

TransactionRecord ==
    [tx_type : TxType, client_id : ClientId, tx_id : TxId, amount : OptionDecimal]

DepositRecord(c, a, s) == [client_id |-> c, amount |-> a, status |-> s]

Account(av, h, l) == [available |-> av, held |-> h, locked |-> l]

AccountDefault == Account(0, 0, FALSE)

total(account) == account.available + account.held

\* HashMap helpers: a map is a function whose DOMAIN is the set of keys.
contains_key(map, k) == k \in DOMAIN map

insert(map, k, v) == [x \in DOMAIN map \cup {k} |-> IF x = k THEN v ELSE map[x]]

or_default(map, k) == IF contains_key(map, k) THEN map ELSE insert(map, k, AccountDefault)

\* ---------------------------------------------------------------- engine
\* The result of one handler: the two maps afterwards and the return path
\* that was taken.
Ret(accs, deps, path) == [accounts |-> accs, deposits |-> deps, outcome |-> path]

\* deposit without the duplicate transaction ID test.
deposit_overwrites(self, record) ==
    IF record.amount = None
    THEN Ret(self.accounts, self.deposits, "no_amount")
    ELSE LET amount == record.amount[1]
             accs == or_default(self.accounts, record.client_id)
             account == accs[record.client_id]
         IN  Ret(insert(accs, record.client_id,
                        Account(account.available + amount, account.held, account.locked)),
                 insert(self.deposits, record.tx_id,
                        DepositRecord(record.client_id, amount, "Normal")),
                 "applied")

\* deposit that credits an existing account but creates none.
deposit_forgets_account(self, record) ==
    IF record.amount = None
    THEN Ret(self.accounts, self.deposits, "no_amount")
    ELSE IF contains_key(self.deposits, record.tx_id)
    THEN Ret(self.accounts, self.deposits, "duplicate_tx")
    ELSE LET amount == record.amount[1]
             accs == or_default(self.accounts, record.client_id)
             account == accs[record.client_id]
         IN  Ret(IF contains_key(self.accounts, record.client_id)
                 THEN insert(accs, record.client_id,
                             Account(account.available + amount, account.held,
                                     account.locked))
                 ELSE self.accounts,
                 insert(self.deposits, record.tx_id,
                        DepositRecord(record.client_id, amount, "Normal")),
                 "applied")

\* deposit that looks the account up before it tests the amount.
deposit_creates_account(self, record) ==
    IF record.amount = None
    THEN Ret(or_default(self.accounts, record.client_id), self.deposits, "no_amount")
    ELSE IF contains_key(self.deposits, record.tx_id)
    THEN Ret(self.accounts, self.deposits, "duplicate_tx")
    ELSE LET amount == record.amount[1]
             accs == or_default(self.accounts, record.client_id)
             account == accs[record.client_id]
         IN  Ret(insert(accs, record.client_id,
                        Account(account.available + amount, account.held, account.locked)),
                 insert(self.deposits, record.tx_id,
                        DepositRecord(record.client_id, amount, "Normal")),
                 "applied")

deposit(self, record) ==
    IF record.amount = None
    THEN Ret(self.accounts, self.deposits, "no_amount")
    ELSE IF contains_key(self.deposits, record.tx_id)
    THEN Ret(self.accounts, self.deposits, "duplicate_tx")
    ELSE LET amount == record.amount[1]
             accs == or_default(self.accounts, record.client_id)
             account == accs[record.client_id]
         IN  Ret(insert(accs, record.client_id,
                        Account(account.available + amount, account.held, account.locked)),
                 insert(self.deposits, record.tx_id,
                        DepositRecord(record.client_id, amount, "Normal")),
                 "applied")

\* withdrawal that resets the account when the funds are insufficient.
withdrawal_resets_account(self, record) ==
    IF record.amount = None
    THEN Ret(self.accounts, self.deposits, "no_amount")
    ELSE LET amount == record.amount[1]
             accs == or_default(self.accounts, record.client_id)
             account == accs[record.client_id]
         IN  IF account.available >= amount
             THEN Ret(insert(accs, record.client_id,
                             Account(account.available - amount, account.held, account.locked)),
                      self.deposits, "applied")
             ELSE Ret(insert(accs, record.client_id, AccountDefault),
                      self.deposits, "insufficient_funds")

\* withdrawal without the funds test.
withdrawal_overdraws(self, record) ==
    IF record.amount = None
    THEN Ret(self.accounts, self.deposits, "no_amount")
    ELSE LET amount == record.amount[1]
             accs == or_default(self.accounts, record.client_id)
             account == accs[record.client_id]
         IN  Ret(insert(accs, record.client_id,
                        Account(account.available - amount, account.held, account.locked)),
                 self.deposits, "applied")

\* withdrawal that refuses to take the last unit: > for >= in the funds test.
withdrawal_strict(self, record) ==
    IF record.amount = None
    THEN Ret(self.accounts, self.deposits, "no_amount")
    ELSE LET amount == record.amount[1]
             accs == or_default(self.accounts, record.client_id)
             account == accs[record.client_id]
         IN  IF account.available > amount
             THEN Ret(insert(accs, record.client_id,
                             Account(account.available - amount, account.held, account.locked)),
                      self.deposits, "applied")
             ELSE Ret(accs, self.deposits, "insufficient_funds")

withdrawal(self, record) ==
    IF record.amount = None
    THEN Ret(self.accounts, self.deposits, "no_amount")
    ELSE LET amount == record.amount[1]
             accs == or_default(self.accounts, record.client_id)
             account == accs[record.client_id]
         IN  IF account.available >= amount
             THEN Ret(insert(accs, record.client_id,
                             Account(account.available - amount, account.held, account.locked)),
                      self.deposits, "applied")
             ELSE Ret(accs, self.deposits, "insufficient_funds")

\* dispute that takes the amount out of available but forgets to hold it.
dispute_drops_funds(self, record) ==
    IF ~contains_key(self.deposits, record.tx_id)
    THEN Ret(self.accounts, self.deposits, "tx_not_found")
    ELSE LET dep == self.deposits[record.tx_id] IN
    IF dep.client_id # record.client_id
    THEN Ret(self.accounts, self.deposits, "not_owner")
    ELSE IF dep.status # "Normal"
    THEN Ret(self.accounts, self.deposits, "wrong_status")
    ELSE IF ~contains_key(self.accounts, record.client_id)
    THEN Ret(self.accounts, self.deposits, "account_not_found")
    ELSE LET account == self.accounts[record.client_id]
         IN  Ret(insert(self.accounts, record.client_id,
                        Account(account.available - dep.amount,
                                account.held, account.locked)),
                 insert(self.deposits, record.tx_id,
                        DepositRecord(dep.client_id, dep.amount, "Disputed")),
                 "applied")

\* dispute that holds no more than the client has available.
dispute_caps_available(self, record) ==
    IF ~contains_key(self.deposits, record.tx_id)
    THEN Ret(self.accounts, self.deposits, "tx_not_found")
    ELSE LET dep == self.deposits[record.tx_id] IN
    IF dep.client_id # record.client_id
    THEN Ret(self.accounts, self.deposits, "not_owner")
    ELSE IF dep.status # "Normal"
    THEN Ret(self.accounts, self.deposits, "wrong_status")
    ELSE IF ~contains_key(self.accounts, record.client_id)
    THEN Ret(self.accounts, self.deposits, "account_not_found")
    ELSE LET account == self.accounts[record.client_id]
             moved == IF account.available < dep.amount
                      THEN account.available ELSE dep.amount
         IN  Ret(insert(self.accounts, record.client_id,
                        Account(account.available - moved,
                                account.held + moved, account.locked)),
                 insert(self.deposits, record.tx_id,
                        DepositRecord(dep.client_id, dep.amount, "Disputed")),
                 "applied")

\* dispute without the ownership test.
dispute_any_client(self, record) ==
    IF ~contains_key(self.deposits, record.tx_id)
    THEN Ret(self.accounts, self.deposits, "tx_not_found")
    ELSE LET dep == self.deposits[record.tx_id] IN
    IF dep.status # "Normal"
    THEN Ret(self.accounts, self.deposits, "wrong_status")
    ELSE IF ~contains_key(self.accounts, record.client_id)
    THEN Ret(self.accounts, self.deposits, "account_not_found")
    ELSE LET account == self.accounts[record.client_id]
         IN  Ret(insert(self.accounts, record.client_id,
                        Account(account.available - dep.amount,
                                account.held + dep.amount, account.locked)),
                 insert(self.deposits, record.tx_id,
                        DepositRecord(dep.client_id, dep.amount, "Disputed")),
                 "applied")

\* dispute that looks the claiming client's account up with or_default when
\* the transaction is unknown.
dispute_touches_account(self, record) ==
    IF ~contains_key(self.deposits, record.tx_id)
    THEN Ret(or_default(self.accounts, record.client_id), self.deposits, "tx_not_found")
    ELSE LET dep == self.deposits[record.tx_id] IN
    IF dep.client_id # record.client_id
    THEN Ret(self.accounts, self.deposits, "not_owner")
    ELSE IF dep.status # "Normal"
    THEN Ret(self.accounts, self.deposits, "wrong_status")
    ELSE IF ~contains_key(self.accounts, record.client_id)
    THEN Ret(self.accounts, self.deposits, "account_not_found")
    ELSE LET account == self.accounts[record.client_id]
         IN  Ret(insert(self.accounts, record.client_id,
                        Account(account.available - dep.amount,
                                account.held + dep.amount, account.locked)),
                 insert(self.deposits, record.tx_id,
                        DepositRecord(dep.client_id, dep.amount, "Disputed")),
                 "applied")

dispute(self, record) ==
    IF ~contains_key(self.deposits, record.tx_id)
    THEN Ret(self.accounts, self.deposits, "tx_not_found")
    ELSE LET dep == self.deposits[record.tx_id] IN
    IF dep.client_id # record.client_id
    THEN Ret(self.accounts, self.deposits, "not_owner")
    ELSE IF dep.status # "Normal"
    THEN Ret(self.accounts, self.deposits, "wrong_status")
    ELSE IF ~contains_key(self.accounts, record.client_id)
    THEN Ret(self.accounts, self.deposits, "account_not_found")
    ELSE LET account == self.accounts[record.client_id]
         IN  Ret(insert(self.accounts, record.client_id,
                        Account(account.available - dep.amount,
                                account.held + dep.amount, account.locked)),
                 insert(self.deposits, record.tx_id,
                        DepositRecord(dep.client_id, dep.amount, "Disputed")),
                 "applied")

\* resolve that returns the amount to available but leaves it held.
resolve_keeps_held(self, record) ==
    IF ~contains_key(self.deposits, record.tx_id)
    THEN Ret(self.accounts, self.deposits, "tx_not_found")
    ELSE LET dep == self.deposits[record.tx_id] IN
    IF dep.client_id # record.client_id
    THEN Ret(self.accounts, self.deposits, "not_owner")
    ELSE IF dep.status # "Disputed"
    THEN Ret(self.accounts, self.deposits, "wrong_status")
    ELSE IF ~contains_key(self.accounts, record.client_id)
    THEN Ret(self.accounts, self.deposits, "account_not_found")
    ELSE LET account == self.accounts[record.client_id]
         IN  Ret(insert(self.accounts, record.client_id,
                        Account(account.available + dep.amount,
                                account.held, account.locked)),
                 insert(self.deposits, record.tx_id,
                        DepositRecord(dep.client_id, dep.amount, "Normal")),
                 "applied")

\* resolve without the status test.
resolve_any_status(self, record) ==
    IF ~contains_key(self.deposits, record.tx_id)
    THEN Ret(self.accounts, self.deposits, "tx_not_found")
    ELSE LET dep == self.deposits[record.tx_id] IN
    IF dep.client_id # record.client_id
    THEN Ret(self.accounts, self.deposits, "not_owner")
    ELSE IF ~contains_key(self.accounts, record.client_id)
    THEN Ret(self.accounts, self.deposits, "account_not_found")
    ELSE LET account == self.accounts[record.client_id]
         IN  Ret(insert(self.accounts, record.client_id,
                        Account(account.available + dep.amount,
                                account.held - dep.amount, account.locked)),
                 insert(self.deposits, record.tx_id,
                        DepositRecord(dep.client_id, dep.amount, "Normal")),
                 "applied")

resolve(self, record) ==
    IF ~contains_key(self.deposits, record.tx_id)
    THEN Ret(self.accounts, self.deposits, "tx_not_found")
    ELSE LET dep == self.deposits[record.tx_id] IN
    IF dep.client_id # record.client_id
    THEN Ret(self.accounts, self.deposits, "not_owner")
    ELSE IF dep.status # "Disputed"
    THEN Ret(self.accounts, self.deposits, "wrong_status")
    ELSE IF ~contains_key(self.accounts, record.client_id)
    THEN Ret(self.accounts, self.deposits, "account_not_found")
    ELSE LET account == self.accounts[record.client_id]
         IN  Ret(insert(self.accounts, record.client_id,
                        Account(account.available + dep.amount,
                                account.held - dep.amount, account.locked)),
                 insert(self.deposits, record.tx_id,
                        DepositRecord(dep.client_id, dep.amount, "Normal")),
                 "applied")

\* chargeback without the status test.
chargeback_any_status(self, record) ==
    IF ~contains_key(self.deposits, record.tx_id)
    THEN Ret(self.accounts, self.deposits, "tx_not_found")
    ELSE LET dep == self.deposits[record.tx_id] IN
    IF dep.client_id # record.client_id
    THEN Ret(self.accounts, self.deposits, "not_owner")
    ELSE IF ~contains_key(self.accounts, record.client_id)
    THEN Ret(self.accounts, self.deposits, "account_not_found")
    ELSE LET account == self.accounts[record.client_id]
         IN  Ret(insert(self.accounts, record.client_id,
                        Account(account.available, account.held - dep.amount, TRUE)),
                 insert(self.deposits, record.tx_id,
                        DepositRecord(dep.client_id, dep.amount, "ChargedBack")),
                 "applied")

\* chargeback that removes the deposit record it charges back.
chargeback_removes_record(self, record) ==
    IF ~contains_key(self.deposits, record.tx_id)
    THEN Ret(self.accounts, self.deposits, "tx_not_found")
    ELSE LET dep == self.deposits[record.tx_id] IN
    IF dep.client_id # record.client_id
    THEN Ret(self.accounts, self.deposits, "not_owner")
    ELSE IF dep.status # "Disputed"
    THEN Ret(self.accounts, self.deposits, "wrong_status")
    ELSE IF ~contains_key(self.accounts, record.client_id)
    THEN Ret(self.accounts, self.deposits, "account_not_found")
    ELSE LET account == self.accounts[record.client_id]
         IN  Ret(insert(self.accounts, record.client_id,
                        Account(account.available, account.held - dep.amount, TRUE)),
                 [t \in DOMAIN self.deposits \ {record.tx_id} |-> self.deposits[t]],
                 "applied")

\* chargeback that leaves the amount held.
chargeback_keeps_held(self, record) ==
    IF ~contains_key(self.deposits, record.tx_id)
    THEN Ret(self.accounts, self.deposits, "tx_not_found")
    ELSE LET dep == self.deposits[record.tx_id] IN
    IF dep.client_id # record.client_id
    THEN Ret(self.accounts, self.deposits, "not_owner")
    ELSE IF dep.status # "Disputed"
    THEN Ret(self.accounts, self.deposits, "wrong_status")
    ELSE IF ~contains_key(self.accounts, record.client_id)
    THEN Ret(self.accounts, self.deposits, "account_not_found")
    ELSE LET account == self.accounts[record.client_id]
         IN  Ret(insert(self.accounts, record.client_id,
                        Account(account.available, account.held, TRUE)),
                 insert(self.deposits, record.tx_id,
                        DepositRecord(dep.client_id, dep.amount, "ChargedBack")),
                 "applied")

\* chargeback that does not lock the account.
chargeback_no_lock(self, record) ==
    IF ~contains_key(self.deposits, record.tx_id)
    THEN Ret(self.accounts, self.deposits, "tx_not_found")
    ELSE LET dep == self.deposits[record.tx_id] IN
    IF dep.client_id # record.client_id
    THEN Ret(self.accounts, self.deposits, "not_owner")
    ELSE IF dep.status # "Disputed"
    THEN Ret(self.accounts, self.deposits, "wrong_status")
    ELSE IF ~contains_key(self.accounts, record.client_id)
    THEN Ret(self.accounts, self.deposits, "account_not_found")
    ELSE LET account == self.accounts[record.client_id]
         IN  Ret(insert(self.accounts, record.client_id,
                        Account(account.available, account.held - dep.amount,
                                account.locked)),
                 insert(self.deposits, record.tx_id,
                        DepositRecord(dep.client_id, dep.amount, "ChargedBack")),
                 "applied")

\* chargeback that returns the amount to available.
chargeback_refunds(self, record) ==
    IF ~contains_key(self.deposits, record.tx_id)
    THEN Ret(self.accounts, self.deposits, "tx_not_found")
    ELSE LET dep == self.deposits[record.tx_id] IN
    IF dep.client_id # record.client_id
    THEN Ret(self.accounts, self.deposits, "not_owner")
    ELSE IF dep.status # "Disputed"
    THEN Ret(self.accounts, self.deposits, "wrong_status")
    ELSE IF ~contains_key(self.accounts, record.client_id)
    THEN Ret(self.accounts, self.deposits, "account_not_found")
    ELSE LET account == self.accounts[record.client_id]
         IN  Ret(insert(self.accounts, record.client_id,
                        Account(account.available + dep.amount,
                                account.held - dep.amount, TRUE)),
                 insert(self.deposits, record.tx_id,
                        DepositRecord(dep.client_id, dep.amount, "ChargedBack")),
                 "applied")

chargeback(self, record) ==
    IF ~contains_key(self.deposits, record.tx_id)
    THEN Ret(self.accounts, self.deposits, "tx_not_found")
    ELSE LET dep == self.deposits[record.tx_id] IN
    IF dep.client_id # record.client_id
    THEN Ret(self.accounts, self.deposits, "not_owner")
    ELSE IF dep.status # "Disputed"
    THEN Ret(self.accounts, self.deposits, "wrong_status")
    ELSE IF ~contains_key(self.accounts, record.client_id)
    THEN Ret(self.accounts, self.deposits, "account_not_found")
    ELSE LET account == self.accounts[record.client_id]
         IN  Ret(insert(self.accounts, record.client_id,
                        Account(account.available, account.held - dep.amount, TRUE)),
                 insert(self.deposits, record.tx_id,
                        DepositRecord(dep.client_id, dep.amount, "ChargedBack")),
                 "applied")

\* process without the locked-account guard.
process_no_lock_guard(self, record) ==
    CASE record.tx_type = "Deposit" -> deposit(self, record)
      [] record.tx_type = "Withdrawal" -> withdrawal(self, record)
      [] record.tx_type = "Dispute" -> dispute(self, record)
      [] record.tx_type = "Resolve" -> resolve(self, record)
      [] record.tx_type = "Chargeback" -> chargeback(self, record)

\* process whose guard drops the record when any account is locked.
process_locks_all(self, record) ==
    IF \E c \in DOMAIN self.accounts : self.accounts[c].locked
    THEN Ret(self.accounts, self.deposits, "locked")
    ELSE CASE record.tx_type = "Deposit" -> deposit(self, record)
           [] record.tx_type = "Withdrawal" -> withdrawal(self, record)
           [] record.tx_type = "Dispute" -> dispute(self, record)
           [] record.tx_type = "Resolve" -> resolve(self, record)
           [] record.tx_type = "Chargeback" -> chargeback(self, record)

\* process whose locked-account guard lets deposits through.
process_guard_skips_deposit(self, record) ==
    IF contains_key(self.accounts, record.client_id)
          /\ self.accounts[record.client_id].locked
          /\ record.tx_type # "Deposit"
    THEN Ret(self.accounts, self.deposits, "locked")
    ELSE CASE record.tx_type = "Deposit" -> deposit(self, record)
           [] record.tx_type = "Withdrawal" -> withdrawal(self, record)
           [] record.tx_type = "Dispute" -> dispute(self, record)
           [] record.tx_type = "Resolve" -> resolve(self, record)
           [] record.tx_type = "Chargeback" -> chargeback(self, record)

process(self, record) ==
    IF contains_key(self.accounts, record.client_id)
          /\ self.accounts[record.client_id].locked
    THEN Ret(self.accounts, self.deposits, "locked")
    ELSE CASE record.tx_type = "Deposit" -> deposit(self, record)
           [] record.tx_type = "Withdrawal" -> withdrawal(self, record)
           [] record.tx_type = "Dispute" -> dispute(self, record)
           [] record.tx_type = "Resolve" -> resolve(self, record)
           [] record.tx_type = "Chargeback" -> chargeback(self, record)

AccountOutput(c, account) ==
    [client |-> c, available |-> account.available, held |-> account.held,
     total |-> total(account), locked |-> account.locked]

\* Engine::output; the Vec is in HashMap iteration order, so it is modelled
\* as the set of its rows.
output(self) == {AccountOutput(c, self.accounts[c]) : c \in DOMAIN self.accounts}

\* ----------------------------------------------------------------- state
\* accounts, deposits: the two HashMaps of Engine.
\* processed: the number of records main has handed to Engine::process.
\* deposited, withdrawn: per client, the sum of the amounts of the deposits
\*       that were applied and of the withdrawals that were applied.
\* nonneg: no record handed to Engine::process so far carried an amount
\*       below zero.
VARIABLES accounts, deposits, processed, deposited, withdrawn, nonneg

vars == <<accounts, deposits, processed, deposited, withdrawn, nonneg>>

Engine == [accounts |-> accounts, deposits |-> deposits]

EmptyMap == [x \in {} |-> 0]

Init ==
    /\ accounts = EmptyMap
    /\ deposits = EmptyMap
    /\ processed = 0
    /\ deposited = [c \in ClientId |-> 0]
    /\ withdrawn = [c \in ClientId |-> 0]
    /\ nonneg = TRUE

\* The engine uses client and transaction IDs as HashMap keys and compares
\* them for equality only, so a stream is read up to renaming of its IDs:
\* a client ID that has no account yet is numbered just above the clients
\* that have one, a transaction ID that has no deposit record yet just
\* above the transactions that have one.
InOrder(record) ==
    /\ record.client_id <= Cardinality(DOMAIN accounts) + 1
    /\ record.tx_id <= Cardinality(DOMAIN deposits) + 1

\* One call of Engine::process from the read loop of main.
Process(record) ==
    LET r == process(Engine, record)
        isDep == record.tx_type = "Deposit" /\ r.outcome = "applied"
        isWd == record.tx_type = "Withdrawal" /\ r.outcome = "applied"
    IN  /\ processed < MaxRecords
        /\ InOrder(record)
        /\ processed' = processed + 1
        /\ accounts' = r.accounts
        /\ deposits' = r.deposits
        /\ deposited' = IF isDep
                        THEN [deposited EXCEPT ![record.client_id] = @ + record.amount[1]]
                        ELSE deposited
        /\ withdrawn' = IF isWd
                        THEN [withdrawn EXCEPT ![record.client_id] = @ + record.amount[1]]
                        ELSE withdrawn
        /\ nonneg' = (nonneg /\ (record.amount = None \/ record.amount[1] >= 0))

\* The records of one kind that the stream carries.  The dispute-cycle
\* handlers never read record.amount, so those records carry None.
Records(kind) ==
    {r \in TransactionRecord :
        /\ r.tx_type = kind
        /\ kind \in {"Dispute", "Resolve", "Chargeback"} => r.amount = None}

DepositRecords == Records("Deposit")

WithdrawalRecords == Records("Withdrawal")

DisputeRecords == Records("Dispute")

ResolveRecords == Records("Resolve")

ChargebackRecords == Records("Chargeback")

ProcessDeposit == \E record \in DepositRecords : Process(record)

ProcessWithdrawal == \E record \in WithdrawalRecords : Process(record)

ProcessDispute == \E record \in DisputeRecords : Process(record)

ProcessResolve == \E record \in ResolveRecords : Process(record)

ProcessChargeback == \E record \in ChargebackRecords : Process(record)

Next ==
    \/ ProcessDeposit
    \/ ProcessWithdrawal
    \/ ProcessDispute
    \/ ProcessResolve
    \/ ProcessChargeback

Spec == Init /\ [][Next]_vars

\* Streams of at most MaxSignedRecords rows whose deposits and withdrawals
\* may also carry the amounts 0 and -1: Decimal is signed and neither
\* handler tests the sign of the amount.
SignedDecimal == {-1, 0} \cup Decimal

SignedRecords(kind) ==
    [tx_type : {kind}, client_id : ClientId, tx_id : TxId,
     amount : {None} \cup {Some(a) : a \in SignedDecimal}]

ProcessSignedDeposit ==
    /\ processed < MaxSignedRecords
    /\ \E record \in SignedRecords("Deposit") : Process(record)

ProcessSignedWithdrawal ==
    /\ processed < MaxSignedRecords
    /\ \E record \in SignedRecords("Withdrawal") : Process(record)

ProcessSignedDispute == processed < MaxSignedRecords /\ ProcessDispute

ProcessSignedResolve == processed < MaxSignedRecords /\ ProcessResolve

ProcessSignedChargeback == processed < MaxSignedRecords /\ ProcessChargeback

NextSigned ==
    \/ ProcessSignedDeposit
    \/ ProcessSignedWithdrawal
    \/ ProcessSignedDispute
    \/ ProcessSignedResolve
    \/ ProcessSignedChargeback

SpecSigned == Init /\ [][NextSigned]_vars

\* ------------------------------------------------- vocabulary of the claims
IsLocked(c) == c \in DOMAIN accounts /\ accounts[c].locked

Available(c) == IF c \in DOMAIN accounts THEN accounts[c].available ELSE 0

Owned(c, status) ==
    {t \in DOMAIN deposits : deposits[t].client_id = c /\ deposits[t].status = status}

RECURSIVE SumAmounts(_)
SumAmounts(txs) ==
    IF txs = {} THEN 0
    ELSE LET t == CHOOSE x \in txs : TRUE
         IN  deposits[t].amount + SumAmounts(txs \ {t})

DisputeKinds == {"Dispute", "Resolve", "Chargeback"}

AllRecords ==
    DepositRecords \cup WithdrawalRecords \cup DisputeRecords \cup ResolveRecords
        \cup ChargebackRecords

DisputeCycleRecords == DisputeRecords \cup ResolveRecords \cup ChargebackRecords

RequiredStatus(kind) == IF kind = "Dispute" THEN "Normal" ELSE "Disputed"

\* The ledger that one process() call on the current ledger returns.  A
\* property of the effect of one record is stated of After(record), for
\* every record, in every reachable state.
After(record) == process(Engine, record)

\* The two maps are as they were.
Unchanged(after) == after.accounts = accounts /\ after.deposits = deposits

NoOp(record) == Unchanged(After(record))

\* The two maps and the rows of snapshot() are as they were.
UnchangedWithSnapshot(after) == Unchanged(after) /\ output(after) = output(Engine)

\* ------------------------------------------------------------------- C1
\* C1: once an account is locked, no process() call, by any client and of
\* any kind, changes its available, held or locked; a locked account stays
\* in the map and stays locked.
C1_LockedAccountFrozen ==
    [][\A c \in ClientId :
          IsLocked(c) => (c \in DOMAIN accounts' /\ accounts'[c] = accounts[c])]_vars

\* A locked account next to the account of another client, one of whose
\* deposits is in dispute.
C1_Witness ==
    \E c1, c2 \in ClientId :
        c1 # c2 /\ IsLocked(c1) /\ Owned(c2, "Disputed") # {}

\* ------------------------------------------------------------------- C2
C2_TotalLaw ==
    \A c \in ClientId :
        IF c \in DOMAIN accounts
        THEN total(accounts[c]) =
                 deposited[c] - withdrawn[c] - SumAmounts(Owned(c, "ChargedBack"))
        ELSE deposited[c] = 0 /\ withdrawn[c] = 0

SameTotals(after) ==
    /\ DOMAIN after.accounts = DOMAIN accounts
    /\ \A c \in DOMAIN accounts : total(after.accounts[c]) = total(accounts[c])

C2_DisputeResolveKeepTotal ==
    \A record \in DisputeRecords \cup ResolveRecords :
        SameTotals(After(record))

\* C2: for every client, total = accepted deposits - successful withdrawals
\* - deposits in status ChargedBack, in every reachable state; a dispute or
\* a resolve record never changes any total.
C2_TotalAccounting == C2_TotalLaw /\ C2_DisputeResolveKeepTotal

\* One client has deposited, withdrawn and been charged back; another,
\* unlocked, owns a deposit that a dispute record can act on.
C2_Witness ==
    \E c1, c2 \in DOMAIN accounts :
        /\ deposited[c1] > 0
        /\ withdrawn[c1] > 0
        /\ SumAmounts(Owned(c1, "ChargedBack")) > 0
        /\ ~accounts[c2].locked
        /\ Owned(c2, "Normal") # {}

\* ------------------------------------------------------------------- C3
\* The rejection kinds the claim lists, for a record about to be processed.
Rejected(record) ==
    LET c == record.client_id
        t == record.tx_id
    IN  \/ IsLocked(c)
        \/ record.tx_type \in {"Deposit", "Withdrawal"} /\ record.amount = None
        \/ record.tx_type = "Deposit" /\ t \in DOMAIN deposits
        \/ /\ record.tx_type = "Withdrawal"
           /\ record.amount # None
           /\ Available(c) < record.amount[1]
        \/ /\ record.tx_type \in DisputeKinds
           /\ \/ t \notin DOMAIN deposits
              \/ deposits[t].client_id # c
              \/ deposits[t].status # RequiredStatus(record.tx_type)

\* The one rejection that touches the account map: an overdrawing
\* withdrawal by a client that has no account yet.
TouchesNewAccount(record) ==
    /\ record.tx_type = "Withdrawal"
    /\ record.amount # None
    /\ record.client_id \notin DOMAIN accounts

\* C3 as stated: every rejected record leaves the whole ledger state, and so
\* the snapshot, as it was.
C3_RejectedIsNoOp ==
    [][\A record \in AllRecords :
          (Rejected(record) /\ Process(record)) =>
              /\ accounts' = accounts
              /\ deposits' = deposits
              /\ output([accounts |-> accounts', deposits |-> deposits']) = output(Engine)]_vars

OnlyNewAccount(after, client) ==
    /\ after.deposits = deposits
    /\ after.accounts =
           [c \in DOMAIN accounts \cup {client} |->
               IF c = client THEN Account(0, 0, FALSE) ELSE accounts[c]]

\* C3 amended, stated of the result of process() on every record in every
\* reachable state: every rejected record leaves the deposit records and
\* every existing account as they were; the ledger and the snapshot are
\* unchanged altogether, except that an overdrawing withdrawal by a client
\* with no account yet adds that client's account with available = 0,
\* held = 0, locked = false.
C3_RejectedKeepsBalances ==
    \A record \in AllRecords :
        Rejected(record) =>
            IF TouchesNewAccount(record)
            THEN OnlyNewAccount(After(record), record.client_id)
            ELSE UnchangedWithSnapshot(After(record))

\* A state in which records are rejected on the deposit and dispute-cycle
\* paths and on both withdrawal paths: an unlocked client with a Disputed
\* deposit and less available than MaxAmount, and a client with no account.
C3_Witness ==
    /\ \E c \in DOMAIN accounts :
           /\ ~accounts[c].locked
           /\ Owned(c, "Disputed") # {}
           /\ accounts[c].available < MaxAmount
    /\ \E c \in ClientId : c \notin DOMAIN accounts

\* ------------------------------------------------------------------- C4
StatusStep(kind, old, new) ==
    \/ new = old
    \/ old = "Normal" /\ new = "Disputed" /\ kind = "Dispute"
    \/ old = "Disputed" /\ new = "Normal" /\ kind = "Resolve"
    \/ old = "Disputed" /\ new = "ChargedBack" /\ kind = "Chargeback"

StatusStepsOnly(kind, after) ==
    /\ DOMAIN deposits \subseteq DOMAIN after.deposits
    /\ \A t \in DOMAIN after.deposits :
           IF t \notin DOMAIN deposits
           THEN after.deposits[t].status = "Normal" /\ kind = "Deposit"
           ELSE StatusStep(kind, deposits[t].status, after.deposits[t].status)

\* C4: a deposit record is created with status Normal; the only status
\* changes a process() call makes are Normal -> Disputed by a dispute,
\* Disputed -> Normal by a resolve and Disputed -> ChargedBack by a
\* chargeback; a ChargedBack record keeps its status.
C4_StatusMachine ==
    \A record \in AllRecords : StatusStepsOnly(record.tx_type, After(record))

\* One deposit has reached ChargedBack, another is Disputed and its owner is
\* unlocked, so every edge of the machine has been or can be taken.
C4_Witness ==
    \E t1, t2 \in DOMAIN deposits :
        /\ deposits[t1].status = "ChargedBack"
        /\ deposits[t2].status = "Disputed"
        /\ ~IsLocked(deposits[t2].client_id)

\* ------------------------------------------------------------------- C5
DisputeOf(c, t) == [tx_type |-> "Dispute", client_id |-> c, tx_id |-> t, amount |-> None]

ResolveOf(c, t) == [tx_type |-> "Resolve", client_id |-> c, tx_id |-> t, amount |-> None]

CanDispute(c, t) ==
    /\ ~IsLocked(c)
    /\ t \in DOMAIN deposits
    /\ deposits[t].client_id = c
    /\ deposits[t].status = "Normal"

ResolveAfter(disputed, c, t) ==
    process([accounts |-> disputed.accounts, deposits |-> disputed.deposits],
            ResolveOf(c, t))

RoundTrip(disputed, c, t) ==
    /\ disputed.deposits[t].status = "Disputed"
    /\ Unchanged(ResolveAfter(disputed, c, t))

\* C5: from any reachable state in which client c is unlocked and owns a
\* Normal deposit t, dispute(c, t) followed by resolve(c, t) returns the
\* accounts and the deposit records to exactly the state before the dispute.
C5_DisputeResolveRoundTrip ==
    \A c \in ClientId, t \in TxId :
        CanDispute(c, t) => RoundTrip(After(DisputeOf(c, t)), c, t)

\* A disputable deposit whose owner has already spent part of it and holds
\* another deposit in dispute, so neither balance is zero on the way.
C5_Witness ==
    \E c \in ClientId, t \in TxId :
        /\ CanDispute(c, t)
        /\ accounts[c].available < deposits[t].amount
        /\ accounts[c].held > 0

\* ------------------------------------------------------------------- C6
CanChargeback(c, t) ==
    /\ ~IsLocked(c)
    /\ t \in DOMAIN deposits
    /\ deposits[t].client_id = c
    /\ deposits[t].status = "Disputed"

ChargedBack(after, c, t) ==
    /\ DOMAIN after.accounts = DOMAIN accounts
    /\ DOMAIN after.deposits = DOMAIN deposits
    /\ after.accounts[c].held = accounts[c].held - deposits[t].amount
    /\ after.accounts[c].available = accounts[c].available
    /\ total(after.accounts[c]) = total(accounts[c]) - deposits[t].amount
    /\ after.accounts[c].locked
    /\ after.deposits[t] =
           [client_id |-> c, amount |-> deposits[t].amount, status |-> "ChargedBack"]
    /\ \A c2 \in DOMAIN accounts \ {c} : after.accounts[c2] = accounts[c2]
    /\ \A t2 \in DOMAIN deposits \ {t} : after.deposits[t2] = deposits[t2]

\* C6: a chargeback by unlocked client c on its Disputed deposit t lowers
\* c's held by the stored amount, leaves c's available as it was, locks c
\* and sets t to ChargedBack; no other account and no other deposit record
\* changes, and t keeps its owner and amount.
C6_ChargebackEffect ==
    \A record \in ChargebackRecords :
        CanChargeback(record.client_id, record.tx_id) =>
            ChargedBack(After(record), record.client_id, record.tx_id)

\* A chargeback can be applied while another account and another deposit
\* record exist and the client's available is not zero.
C6_Witness ==
    \E c \in ClientId, t \in TxId :
        /\ CanChargeback(c, t)
        /\ accounts[c].available # 0
        /\ DOMAIN accounts # {c}
        /\ DOMAIN deposits # {t}

\* ------------------------------------------------------------------- C7
\* C7: a dispute, resolve or chargeback record whose client is not the owner
\* of the referenced deposit changes no account and no deposit record and
\* creates no account.
C7_OwnerMismatchIsNoOp ==
    \A record \in DisputeCycleRecords :
        (/\ record.tx_id \in DOMAIN deposits
         /\ deposits[record.tx_id].client_id # record.client_id) => NoOp(record)

\* A Normal and a Disputed deposit of one unlocked client, and another
\* unlocked client with an account that could claim them.
C7_Witness ==
    \E c1, c2 \in DOMAIN accounts :
        /\ c1 # c2
        /\ ~accounts[c1].locked
        /\ ~accounts[c2].locked
        /\ Owned(c1, "Normal") # {}
        /\ Owned(c1, "Disputed") # {}

\* ------------------------------------------------------------------- C8
\* C8: a dispute on a deposit that is not Normal, and a resolve or a
\* chargeback on a deposit that is not Disputed, change no account and no
\* deposit record.
C8_WrongStatusIsNoOp ==
    \A record \in DisputeCycleRecords :
        (/\ record.tx_id \in DOMAIN deposits
         /\ deposits[record.tx_id].status # RequiredStatus(record.tx_type)) =>
            NoOp(record)

\* An unlocked client owns a Disputed deposit (second dispute) and a Normal
\* deposit (resolve or chargeback without dispute).
C8_Witness ==
    \E c \in DOMAIN accounts :
        /\ ~accounts[c].locked
        /\ Owned(c, "Disputed") # {}
        /\ Owned(c, "Normal") # {}

\* ------------------------------------------------------------------- C9
RecordsOnlyAppliedDeposit(record, after) ==
    DOMAIN after.deposits # DOMAIN deposits =>
        /\ record.tx_type = "Deposit"
        /\ record.amount # None
        /\ record.tx_id \notin DOMAIN deposits
        /\ ~IsLocked(record.client_id)
        /\ DOMAIN after.deposits = DOMAIN deposits \cup {record.tx_id}

\* C9: a dispute, resolve or chargeback record on a transaction ID without a
\* deposit record changes nothing; and a process() call adds a deposit
\* record only for an applied deposit (amount present, ID unused, client not
\* locked), so an ID used by a withdrawal or a rejected deposit stays
\* unknown.
C9_UnknownTxIsNoOp ==
    /\ \A record \in DisputeCycleRecords :
           record.tx_id \notin DOMAIN deposits => NoOp(record)
    /\ \A record \in AllRecords : RecordsOnlyAppliedDeposit(record, After(record))

\* A transaction ID is unknown although withdrawals have been applied, and
\* there are an unlocked client with funds and a client with no account to
\* issue the record.
C9_Witness ==
    /\ DOMAIN deposits # TxId
    /\ \E c \in DOMAIN accounts :
           ~accounts[c].locked /\ withdrawn[c] > 0 /\ accounts[c].available > 0
    /\ \E c \in ClientId : c \notin DOMAIN accounts

\* ------------------------------------------------------------------ C10
\* C10: a deposit whose transaction ID already has a deposit record changes
\* no account and no deposit record, whatever its amount and client, and
\* creates no account.
C10_DuplicateDepositIsNoOp ==
    \A record \in DepositRecords :
        record.tx_id \in DOMAIN deposits => NoOp(record)

\* A Disputed deposit record exists, its owner is unlocked, and there is a
\* client with no account that could issue the duplicate.
C10_Witness ==
    /\ \E t \in DOMAIN deposits :
           deposits[t].status = "Disputed" /\ ~IsLocked(deposits[t].client_id)
    /\ \E c \in ClientId : c \notin DOMAIN accounts

\* ------------------------------------------------------------------ C11
NoAmountRecords ==
    {record \in DepositRecords \cup WithdrawalRecords : record.amount = None}

\* C11: a deposit or withdrawal record with no amount changes no account,
\* creates no deposit record and creates no account, whether or not its
\* client has one.
C11_NoAmountIsNoOp ==
    \A record \in NoAmountRecords : UnchangedWithSnapshot(After(record))

\* An unlocked client with funds, a client with no account and an unused
\* transaction ID, so a record with an amount would be applied.
C11_Witness ==
    /\ \E c \in DOMAIN accounts : ~accounts[c].locked /\ accounts[c].available > 0
    /\ \E c \in ClientId : c \notin DOMAIN accounts
    /\ DOMAIN deposits # TxId

\* ------------------------------------------------------------------ C12
Dropped(after) == after.outcome = "locked" /\ Unchanged(after)

\* C12: a record of any kind whose client has a locked account is dropped
\* by the guard of process(): the key sets of both maps, every account and
\* every deposit record are as they were, so a deposit by a locked client
\* leaves its transaction ID unused.
C12_LockedGuardDropsRecord ==
    \A record \in AllRecords :
        IsLocked(record.client_id) => Dropped(After(record))

\* A locked client while a transaction ID is still unused, so its deposit
\* would create a record if it were not dropped.
C12_Witness ==
    /\ \E c \in ClientId : IsLocked(c)
    /\ DOMAIN deposits # TxId

\* ------------------------------------------------------------------ C13
\* The account the withdrawal works on: the client's, or the default one
\* that entry().or_default() inserts.
Touched(c) == IF c \in DOMAIN accounts THEN accounts[c] ELSE AccountDefault

Withdrawn(after, c, a) ==
    /\ after.deposits = deposits
    /\ DOMAIN after.accounts = DOMAIN accounts \cup {c}
    /\ after.accounts[c].available =
           IF Touched(c).available >= a
           THEN Touched(c).available - a
           ELSE Touched(c).available
    /\ after.accounts[c].held = Touched(c).held
    /\ after.accounts[c].locked = Touched(c).locked
    /\ \A c2 \in DOMAIN accounts \ {c} : after.accounts[c2] = accounts[c2]

\* C13: a withdrawal of amount a by an unlocked client c lowers c's
\* available by a when available >= a and leaves it as it was otherwise; c's
\* held and locked, every deposit record and every other account are as they
\* were, and c has an account afterwards, (0, 0, false) if c had none.
C13_WithdrawalEffect ==
    \A record \in WithdrawalRecords :
        (record.amount # None /\ ~IsLocked(record.client_id)) =>
            Withdrawn(After(record), record.client_id, record.amount[1])

\* An unlocked client with available = 1 and funds held, so a withdrawal of
\* 1 takes everything and a withdrawal of MaxAmount is refused, next to a
\* client with no account.
C13_Witness ==
    /\ \E c \in DOMAIN accounts :
           /\ ~accounts[c].locked
           /\ accounts[c].available = 1
           /\ accounts[c].held > 0
    /\ \E c \in ClientId : c \notin DOMAIN accounts

\* ------------------------------------------------------------------ C14
Disputed(after, c, t) ==
    /\ DOMAIN after.accounts = DOMAIN accounts
    /\ DOMAIN after.deposits = DOMAIN deposits
    /\ after.accounts[c].available = accounts[c].available - deposits[t].amount
    /\ after.accounts[c].held = accounts[c].held + deposits[t].amount
    /\ after.accounts[c].locked = accounts[c].locked
    /\ total(after.accounts[c]) = total(accounts[c])
    /\ after.deposits[t] =
           [client_id |-> c, amount |-> deposits[t].amount, status |-> "Disputed"]
    /\ \A c2 \in DOMAIN accounts \ {c} : after.accounts[c2] = accounts[c2]
    /\ \A t2 \in DOMAIN deposits \ {t} : after.deposits[t2] = deposits[t2]

\* C14: a dispute by unlocked client c on its Normal deposit t takes the
\* whole stored amount from c's available and adds it to c's held, whatever
\* c's available is, so c's total is as it was, and sets t to Disputed.
\* (That a state with available < 0 is reached, by a deposit, a smaller
\* withdrawal and the dispute of the deposit, is C14_Witness.)
C14_DisputeEffect ==
    \A record \in DisputeRecords :
        CanDispute(record.client_id, record.tx_id) =>
            Disputed(After(record), record.client_id, record.tx_id)

\* A dispute after a withdrawal has made a client's available negative, and
\* the client owns another deposit that a dispute can act on.
C14_Witness ==
    \E c \in ClientId, t \in TxId :
        /\ CanDispute(c, t)
        /\ accounts[c].available < 0
        /\ accounts[c].held > 0
        /\ total(accounts[c]) > 0
        /\ withdrawn[c] > 0

\* ------------------------------------------------------------------ C15
\* process() on the ledger that an earlier call returned.
Then(ledger, record) ==
    process([accounts |-> ledger.accounts, deposits |-> ledger.deposits], record)

SameLedger(x, y) == x.accounts = y.accounts /\ x.deposits = y.deposits

Independent(r1, r2) == r1.client_id # r2.client_id /\ r1.tx_id # r2.tx_id

Commute(r1, r2) == SameLedger(Then(After(r1), r2), Then(After(r2), r1))

\* C15: in every reachable state, two records with different client IDs and
\* different transaction IDs give the same accounts and the same deposit
\* records in either order.  The two records are the next two rows of the
\* stream, so the state is one that leaves room for two rows; Commute is
\* symmetric in its two records, so each pair is taken once, the lower
\* client ID first.
C15_IndependentRecordsCommute ==
    processed + 2 <= MaxRecords =>
        \A r1, r2 \in AllRecords :
            (r1.client_id < r2.client_id /\ r1.tx_id # r2.tx_id) => Commute(r1, r2)

\* Room for two more rows, and two unlocked clients, one owning a Disputed
\* deposit and the other a Normal one, so the pair can be a chargeback of
\* the first and a dispute or a withdrawal of the second.
C15_Witness ==
    /\ processed + 2 <= MaxRecords
    /\ \E c1, c2 \in DOMAIN accounts :
           /\ c1 # c2
           /\ ~accounts[c1].locked
           /\ ~accounts[c2].locked
           /\ Owned(c1, "Disputed") # {}
           /\ Owned(c2, "Normal") # {}

\* ------------------------------------------------------------------ C16
\* C16: in every reachable state the owner of every deposit record has an
\* account, and no dispute, resolve or chargeback record takes the
\* "account not found" return.
C16_OwnerHasAccount ==
    /\ \A t \in DOMAIN deposits : deposits[t].client_id \in DOMAIN accounts
    /\ \A record \in DisputeCycleRecords :
           After(record).outcome # "account_not_found"

\* Deposits of two unlocked clients, one Normal and one Disputed, so the
\* three handlers get as far as their account lookup.
C16_Witness ==
    \E t1, t2 \in DOMAIN deposits :
        /\ deposits[t1].client_id # deposits[t2].client_id
        /\ deposits[t1].status = "Normal"
        /\ deposits[t2].status = "Disputed"
        /\ ~IsLocked(deposits[t1].client_id)
        /\ ~IsLocked(deposits[t2].client_id)

\* ------------------------------------------------------------------ C17
Kept(after) ==
    /\ DOMAIN accounts \subseteq DOMAIN after.accounts
    /\ DOMAIN deposits \subseteq DOMAIN after.deposits
    /\ \A t \in DOMAIN deposits :
           /\ after.deposits[t].client_id = deposits[t].client_id
           /\ after.deposits[t].amount = deposits[t].amount

\* C17: across every process() call the key sets of accounts and of deposits
\* only grow, and every existing deposit record keeps its owning client and
\* its stored amount.
C17_NothingDeleted ==
    \A record \in AllRecords : Kept(After(record))

\* Two accounts and two deposit records, one of them Disputed with an
\* unlocked owner, so records of every kind can still be applied.
C17_Witness ==
    /\ Cardinality(DOMAIN accounts) >= 2
    /\ Cardinality(DOMAIN deposits) >= 2
    /\ \E t \in DOMAIN deposits :
           deposits[t].status = "Disputed" /\ ~IsLocked(deposits[t].client_id)

\* ------------------------------------------------------------------ C18
Held(c) == IF c \in DOMAIN accounts THEN accounts[c].held ELSE 0

\* C18: in every reachable state, each client's held is the sum of the
\* stored amounts of the deposits it owns in status Disputed.
C18_HeldIsDisputedSum ==
    \A c \in ClientId : Held(c) = SumAmounts(Owned(c, "Disputed"))

\* A locked account that keeps funds held: it had another deposit in
\* dispute when it was charged back.
C18_Witness ==
    \E c \in ClientId : IsLocked(c) /\ Held(c) > 0

AtRisk(c) == Owned(c, "Disputed") \cup Owned(c, "ChargedBack")

Floor(c) == Available(c) + SumAmounts(AtRisk(c)) >= 0

StaysNonNegative(after, c) ==
    Available(c) >= 0 => after.accounts[c].available >= 0

NonNegativeWithdrawals ==
    {record \in SignedRecords("Withdrawal") :
        record.amount # None /\ record.amount[1] >= 0}

\* C20: while no record has carried an amount below zero, for every client
\* available plus the stored amounts of its Disputed and ChargedBack
\* deposits is >= 0, so available is negative only for a client that owns
\* such a deposit; and a withdrawal of an amount >= 0 never takes an
\* available that is >= 0 below zero.
C20_AvailableFloor ==
    /\ nonneg =>
           \A c \in ClientId :
               /\ Floor(c)
               /\ Available(c) < 0 => AtRisk(c) # {}
    /\ \A record \in NonNegativeWithdrawals :
           StaysNonNegative(After(record), record.client_id)

\* Only amounts >= 0 so far, one of them a deposit of 0, and a client whose
\* available a dispute has made negative after a withdrawal.
C20_Witness ==
    /\ nonneg
    /\ \E t \in DOMAIN deposits : deposits[t].amount = 0
    /\ \E c \in ClientId :
           Available(c) < 0 /\ withdrawn[c] > 0 /\ AtRisk(c) # {}

====
